---- MODULE Spec2Model ----
(***************************************************************************)
(* Model of src-tauri/src/lib.rs: the three Tauri commands get_projects,   *)
(* open_project and delete_folder, run as concurrent async tasks over the  *)
(* shared ProjectCache (a tokio Mutex around a HashMap<String, PathBuf>)   *)
(* and the file system below %localappdata%/Autodesk/Revit.                *)
(***************************************************************************)
EXTENDS Integers, Sequences, FiniteSets, TLC

\* ------------------------------------------------------------------ bounds

\* Total number of command invocations in one behaviour.
MaxCalls == 3

\* Number of entries the walk of one project folder yields, at most.
MaxEntries == 2

\* ------------------------------------------------------- program constants

MINIMUM_VERSION == 2018
MAXIMUM_VERSION == 2038

\* duration.as_secs() / 86400
SecsPerDay == 86400

\* ------------------------------------------------------------- the universe

\* The tasks of the async runtime that run the commands.
Procs == {"t1", "t2"}
NoProc == "none"

\* A file name is one code unit here. "a", "zz" and "FFFD" (U+FFFD itself) are
\* valid Unicode; "D800" and "D801" are unpaired surrogates (Windows) or
\* invalid UTF-8 bytes (Unix), which an OsString may hold and a String may not.
InvalidUnits == {"D800", "D801"}

\* A project folder path is <<version, user folder, project folder>> below
\* revit_cc_base/"Autodesk Revit {vers}"/CollaborationCache.
Paths ==
    { <<2018, "u", "a">>, <<2019, "u", "D800">>, <<2019, "u", "D801">> }

NoPath == <<>>

\* Path::to_string_lossy / OsStr::to_string_lossy: every code unit that is not
\* valid Unicode becomes U+FFFD, the rest is copied.
LossyUnit(u) == IF u \in InvalidUnits THEN "FFFD" ELSE u

to_string_lossy(p) == [i \in DOMAIN p |-> IF i = 1 THEN p[i] ELSE LossyUnit(p[i])]

\* DirEntry::file_name().to_string_lossy()
file_name(p) == LossyUnit(p[Len(p)])

\* The identifiers a caller may send: those a scan can produce and one that no
\* scan produces.
Ids == { to_string_lossy(p) : p \in Paths } \cup { <<2018, "u", "zz">> }

NoId == <<>>

\* The version directories and user folders above the project entries.
Dirs == { <<e[1]>> : e \in Paths } \cup { <<e[1], e[2]>> : e \in Paths }

\* The order in which a directory listing yields its entries is the
\* platform's; it is the same on every listing. Versions are visited in
\* ascending order by the for loop.
DirOrder == <<"D800", "D801", "a">>

Rank(n) == CHOOSE i \in DOMAIN DirOrder : DirOrder[i] = n

\* A listing whose order inside one directory changes from call to call.
AnyListingOrder(e, f) == e[1] <= f[1]

Before(e, f) == e[1] < f[1] \/ (e[1] = f[1] /\ Rank(e[3]) < Rank(f[3]))

\* Seconds since the epoch: modification times of files and readings of
\* SystemTime::now(). NoTime stands for None / Err.
NoTime == -1

MTimes == {0, 50000, 100000}

NowValues == {86399, 86400, 186400}

StartTime == 86399

\* What WalkDir yields for one project folder: a sequence of entries. An entry
\* is an Err, or a DirEntry whose metadata() is an Err (meta = FALSE), or one
\* with metadata: a regular file with its len() and modified(), or something
\* else (a directory, a symlink).
ErrEntry == [t |-> "err", meta |-> FALSE, len |-> 0, mtime |-> NoTime]

OtherEntry == [t |-> "other", meta |-> TRUE, len |-> 4096, mtime |-> 50000]

FileEntry(n, m) == [t |-> "file", meta |-> TRUE, len |-> n, mtime |-> m]

NoMetaEntry(n, m) == [t |-> "file", meta |-> FALSE, len |-> n, mtime |-> m]

Entries ==
    {ErrEntry, OtherEntry, NoMetaEntry(100, 0)}
        \cup {FileEntry(n, m) : n \in {100, 250}, m \in MTimes \cup {NoTime}}

Trees == UNION {[1..k -> Entries] : k \in 0..MaxEntries}

\* A project folder holding one file of 100 bytes.
DefaultTree == <<OtherEntry, FileEntry(100, 0)>>

\* A loop body without the metadata and is_file tests: whatever the walk yields
\* is counted.
WalkEntryAnyKind(acc, ent) ==
    IF ent.t = "err" THEN acc ELSE <<acc[1] + ent.len, acc[2]>>

\* The body of the loop over WalkDir, lines 102-131, applied to one entry:
\* acc is <<total_size, youngest_file_time>>.
WalkEntry(acc, ent) ==
    IF ent.t = "err" \/ ~ent.meta \/ ent.t # "file"
    THEN acc
    ELSE <<acc[1] + ent.len,
           IF ent.mtime = NoTime THEN acc[2]
           ELSE IF acc[2] = NoTime \/ ent.mtime > acc[2] THEN ent.mtime
           ELSE acc[2]>>

\* The loop over WalkDir, lines 98-131.
RECURSIVE Walk(_)
Walk(t) ==
    IF t = <<>> THEN <<0, NoTime>>
    ELSE WalkEntry(Walk(SubSeq(t, 1, Len(t) - 1)), t[Len(t)])

\* Days rounded up instead of down.
DaysRoundedUp(youngest, n) ==
    IF youngest = NoTime THEN 0
    ELSE IF n >= youngest THEN (n - youngest + SecsPerDay - 1) \div SecsPerDay
    ELSE 0

\* Lines 134-139: whole days from the youngest file time to now; 0 when there
\* is none or duration_since fails because it lies after now.
DaysOld(youngest, n) ==
    IF youngest = NoTime THEN 0
    ELSE IF n >= youngest THEN (n - youngest) \div SecsPerDay
    ELSE 0

\* ProjectDef { id, name, year, size, days } as built at lines 142-148 from the
\* entry e, the walk t of its folder and the time n.
ProjectDef(e, t, n) ==
    [id |-> to_string_lossy(e), name |-> file_name(e), year |-> e[1],
     size |-> Walk(t)[1], days |-> DaysOld(Walk(t)[2], n)]

\* HashMap<String, PathBuf> as a function from the keys present to their values.
EmptyMap == [k \in {} |-> NoPath]

HashMapInsert(m, k, v) == [x \in DOMAIN m \cup {k} |-> IF x = k THEN v ELSE m[x]]

\* remove() that looks the key up and leaves it in the map.
HashMapKeep(m, k) == m

\* remove() written as a retain() with the predicate the wrong way round.
HashMapRetainOnly(m, k) == [x \in DOMAIN m \cap {k} |-> m[x]]

HashMapRemove(m, k) == [x \in DOMAIN m \ {k} |-> m[x]]

\* The caller's string used as the path instead of the cached PathBuf.
HashMapGetRaw(m, k) == k

HashMapGet(m, k) == IF k \in DOMAIN m THEN m[k] ELSE NoPath

\* The values a command hands back to its caller.
Pending == [kind |-> "Pending", path |-> NoPath, cause |-> "", projects |-> <<>>]

OkUnit == [kind |-> "Ok", path |-> NoPath, cause |-> "", projects |-> <<>>]

OkProjects(v) == [kind |-> "Ok", path |-> NoPath, cause |-> "", projects |-> v]

NotFoundErr == [kind |-> "NotFound", path |-> NoPath, cause |-> "", projects |-> <<>>]

OpenErr(e) == [kind |-> "OpenFailed", path |-> NoPath, cause |-> e, projects |-> <<>>]

DeleteErr(p, e) == [kind |-> "DeleteFailed", path |-> p, cause |-> e, projects |-> <<>>]

\* ------------------------------------------------------------------- state

VARIABLES
    fs,            \* the project folder paths that exist on disk
    cache,         \* ProjectCache: identifier -> path
    lock,          \* the task holding the cache Mutex, or NoProc
    pc,            \* each task's position in its command
    op,            \* the command a task runs (or ran last)
    arg,           \* the id a task's caller supplied
    path,          \* project_folder_path / path / path_to_delete of the task
    todo,          \* directory entries a scan has not reached yet
    all_projects,  \* the scan's output vector
    result,        \* what the last command of the task returned
    calls,         \* number of commands invoked so far
    \* history, written by the actions and read only by the properties
    found,         \* per scan: the paths it discovered, in discovery order
    published,     \* the mapping the last completed scan left, minus takes
    inserted,      \* every <<id, path>> pair a scan ever inserted
    deleted,       \* paths removed by a successful delete, not recreated since
    quiet,         \* per delete: the cache held arg at the call, no scan wrote it since
    stolen,        \* per delete: another delete_folder took arg since the call
    takenDuring,   \* per scan: the ids deletes took since it was called
    \* the rest of the environment
    kind,          \* per project entry: "dir" or "file"
    unreadable,    \* directories and entries whose listing or reading fails
    tree,          \* per project folder: what a walk of it yields
    now            \* SystemTime::now()

prog == <<fs, cache, lock, pc, op, arg, path, todo, all_projects, result, calls>>

hist == <<found, published, inserted, deleted, quiet, stolen, takenDuring>>

disk == <<kind, unreadable, tree, now>>

vars == <<prog, hist, disk>>

Scanning(p) == pc[p] \in {"gp_clear", "gp_loop", "gp_insert"}

\* run(): app.manage(ProjectCache(Mutex::new(HashMap::new()))); no command runs.
Started ==
    /\ cache = EmptyMap
    /\ lock = NoProc
    /\ pc = [p \in Procs |-> "idle"]
    /\ op = [p \in Procs |-> "none"]
    /\ arg = [p \in Procs |-> NoId]
    /\ path = [p \in Procs |-> NoPath]
    /\ todo = [p \in Procs |-> {}]
    /\ all_projects = [p \in Procs |-> <<>>]
    /\ result = [p \in Procs |-> Pending]
    /\ calls = 0
    /\ found = [p \in Procs |-> <<>>]
    /\ published = EmptyMap
    /\ inserted = {}
    /\ deleted = {}
    /\ quiet = [p \in Procs |-> FALSE]
    /\ stolen = [p \in Procs |-> FALSE]
    /\ takenDuring = [p \in Procs |-> {}]

\* Any set of project folders, all of them readable directories with a file.
Init ==
    /\ Started
    /\ fs \in SUBSET Paths
    /\ kind = [e \in Paths |-> "dir"]
    /\ unreadable = {}
    /\ tree = [e \in Paths |-> DefaultTree]
    /\ now = StartTime

\* -------------------------------------------------------------- operations

\* The caller (the UI process) invokes a command on an idle task.
Invoke(p, name, id, first) ==
    /\ pc[p] = "idle"
    /\ calls < MaxCalls
    /\ calls' = calls + 1
    /\ pc' = [pc EXCEPT ![p] = first]
    /\ op' = [op EXCEPT ![p] = name]
    /\ arg' = [arg EXCEPT ![p] = id]
    /\ quiet' = [quiet EXCEPT ![p] = name = "delete_folder" /\ id \in DOMAIN cache]
    /\ UNCHANGED <<fs, cache, lock, path, todo, all_projects, result>>
    /\ UNCHANGED <<found, published, inserted, deleted, stolen, takenDuring>>
    /\ UNCHANGED disk

\* get_projects is invoked: let mut all_projects = Vec::new().
CallGetProjects(p) == Invoke(p, "get_projects", NoId, "gp_clear")

\* open_project(id) is invoked.
CallOpenProject(p, id) == Invoke(p, "open_project", id, "op_lock")

\* delete_folder(id) is invoked.
CallDeleteFolder(p, id) == Invoke(p, "delete_folder", id, "df_lock")

\* The entries the three nested loops can reach: project entries of a user
\* folder of a version directory with MINIMUM_VERSION <= vers <= MAXIMUM_VERSION.
InRange(e) == MINIMUM_VERSION <= e[1] /\ e[1] <= MAXIMUM_VERSION

\* A lock that never makes a task wait.
LockIgnored == TRUE

\* cache.0.lock().await: the Mutex can be taken when no task holds it.
CanLock == lock = NoProc

\* A guard that is never dropped: the Mutex stays with the task.
GuardLeaked(p) == p

\* The MutexGuard is dropped: the Mutex is free again.
GuardDropped(p) == NoProc

\* cache.0.lock().await.clear(): one critical section, the guard is dropped at
\* the end of the statement.
GpClear(p) ==
    /\ pc[p] = "gp_clear"
    /\ CanLock
    /\ cache' = EmptyMap
    /\ todo' = [todo EXCEPT ![p] = {e \in Paths : InRange(e)}]
    /\ pc' = [pc EXCEPT ![p] = "gp_loop"]
    /\ quiet' = [q \in Procs |-> FALSE]
    /\ UNCHANGED <<fs, lock, op, arg, path, all_projects, result, calls>>
    /\ UNCHANGED <<found, published, inserted, deleted, stolen, takenDuring>>
    /\ UNCHANGED disk

\* A listing that fails as a whole as soon as anything in the tree is unreadable.
ListedUnlessAnyError(f, u, e) == e \in f /\ u = {}

\* Lines 50-88: the loops reach the entry e of a user folder if it exists and
\* neither the listing of its version directory, nor its user folder (not a
\* directory, or its listing fails), nor the entry itself yields an error;
\* everything else is skipped with continue.
Listed(f, u, e) ==
    /\ e \in f
    /\ <<e[1]>> \notin u
    /\ <<e[1], e[2]>> \notin u
    /\ e \notin u

\* WalkDir::new(&project_folder_path): the folder's tree, or the entry itself
\* when it is a regular file.
WalkOf(e) == IF kind[e] = "file" THEN <<FileEntry(100, 0)>> ELSE tree[e]

\* One step of the loops over versions, user folders and project folders:
\* versions ascending, the order inside one directory is the platform's. The
\* listing yields an entry that exists when the iterator reaches it; the entry
\* is walked, its ProjectDef is pushed, and the task goes on to the insert.
GpNext(p) ==
    /\ pc[p] = "gp_loop"
    /\ \E e \in todo[p] :
        /\ \A f \in todo[p] \ {e} : Before(e, f)
        /\ todo' = [todo EXCEPT ![p] = @ \ {e}]
        /\ IF Listed(fs, unreadable, e)
           THEN /\ path' = [path EXCEPT ![p] = e]
                /\ all_projects' = [all_projects EXCEPT ![p] =
                        Append(@, ProjectDef(e, WalkOf(e), now))]
                /\ found' = [found EXCEPT ![p] = Append(@, e)]
                /\ pc' = [pc EXCEPT ![p] = "gp_insert"]
           ELSE UNCHANGED <<path, all_projects, found, pc>>
    /\ UNCHANGED <<fs, cache, lock, op, arg, result, calls>>
    /\ UNCHANGED <<published, inserted, deleted, quiet, stolen, takenDuring>>
    /\ UNCHANGED disk

\* cache.0.lock().await.insert(path_id, project_folder_path): a critical
\* section of its own, once per project.
GpInsert(p) ==
    /\ pc[p] = "gp_insert"
    /\ CanLock
    /\ cache' = HashMapInsert(cache, to_string_lossy(path[p]), path[p])
    /\ inserted' = inserted \cup {<<to_string_lossy(path[p]), path[p]>>}
    /\ path' = [path EXCEPT ![p] = NoPath]
    /\ pc' = [pc EXCEPT ![p] = "gp_loop"]
    /\ quiet' = [q \in Procs |-> FALSE]
    /\ UNCHANGED <<fs, lock, op, arg, todo, all_projects, result, calls>>
    /\ UNCHANGED <<found, published, deleted, stolen, takenDuring>>
    /\ UNCHANGED disk

\* Ok(all_projects)
GpReturn(p) ==
    /\ pc[p] = "gp_loop"
    /\ todo[p] = {}
    /\ result' = [result EXCEPT ![p] = OkProjects(all_projects[p])]
    /\ pc' = [pc EXCEPT ![p] = "done"]
    /\ published' = cache
    /\ UNCHANGED <<fs, cache, lock, op, arg, path, todo, all_projects, calls>>
    /\ UNCHANGED <<found, inserted, deleted, quiet, stolen, takenDuring>>
    /\ UNCHANGED disk

\* What the external opener and the file system report on failure.
OpenCauses == {"opener"}

\* open_project, line 169: lock the cache and look the id up. On a hit the
\* guard (a temporary of the if-let scrutinee) lives on through the block, on
\* a miss the command returns the "not found" error.
OpLock(p) ==
    /\ pc[p] = "op_lock"
    /\ CanLock
    /\ IF arg[p] \in DOMAIN cache
       THEN /\ path' = [path EXCEPT ![p] = HashMapGet(cache, arg[p])]
            /\ lock' = p
            /\ pc' = [pc EXCEPT ![p] = "op_open"]
            /\ UNCHANGED result
       ELSE /\ result' = [result EXCEPT ![p] = NotFoundErr]
            /\ pc' = [pc EXCEPT ![p] = "done"]
            /\ UNCHANGED <<path, lock>>
    /\ UNCHANGED <<fs, cache, op, arg, todo, all_projects, calls>>
    /\ UNCHANGED hist
    /\ UNCHANGED disk

\* open_project, lines 171-175: app.opener().open_path(path, None) with the
\* guard still held; its error is mapped to a string and returned.
OpOpen(p) ==
    /\ pc[p] = "op_open"
    /\ \/ result' = [result EXCEPT ![p] = OkUnit]
       \/ \E e \in OpenCauses : result' = [result EXCEPT ![p] = OpenErr(e)]
    /\ lock' = GuardDropped(p)
    /\ path' = [path EXCEPT ![p] = NoPath]
    /\ pc' = [pc EXCEPT ![p] = "done"]
    /\ UNCHANGED <<fs, cache, op, arg, todo, all_projects, calls>>
    /\ UNCHANGED hist
    /\ UNCHANGED disk

\* The Err arm of the match dropped: the command answers Ok(()) regardless.
RemoveResultSwallowed(removed, q, e) == OkUnit

\* match fs::remove_dir_all(..), lines 208-218: Ok(()) on success, on failure
\* the message "Failed to delete directory {path:?}: {e}".
RemoveResult(removed, q, e) == IF removed THEN OkUnit ELSE DeleteErr(q, e)

\* delete_folder, line 206: lock the cache and remove the id from it. On a hit
\* the guard lives on through the block, on a miss the command returns the
\* "not found" error.
DfLock(p) ==
    /\ pc[p] = "df_lock"
    /\ CanLock
    /\ cache' = HashMapRemove(cache, arg[p])
    /\ IF arg[p] \in DOMAIN cache
       THEN /\ path' = [path EXCEPT ![p] = HashMapGet(cache, arg[p])]
            /\ lock' = p
            /\ pc' = [pc EXCEPT ![p] = "df_remove"]
            /\ published' = HashMapRemove(published, arg[p])
            /\ takenDuring' = [q \in Procs |->
                 IF Scanning(q) THEN takenDuring[q] \cup {arg[p]} ELSE takenDuring[q]]
            /\ stolen' = [q \in Procs |->
                 IF q # p /\ pc[q] = "df_lock" /\ arg[q] = arg[p] THEN TRUE ELSE stolen[q]]
            /\ UNCHANGED result
       ELSE /\ result' = [result EXCEPT ![p] = NotFoundErr]
            /\ pc' = [pc EXCEPT ![p] = "done"]
            /\ UNCHANGED <<path, lock, published, takenDuring, stolen>>
    /\ UNCHANGED <<fs, op, arg, todo, all_projects, calls>>
    /\ UNCHANGED <<found, inserted, deleted, quiet>>
    /\ UNCHANGED disk

\* delete_folder, lines 208-218: fs::remove_dir_all(&path_to_delete) with the
\* guard still held. It succeeds only if the path is an existing directory and
\* everything below it could be removed; a failure leaves the directory (or
\* what is left of it) in place; a regular file is not removed.
DfRemove(p) ==
    /\ pc[p] = "df_remove"
    /\ \/ /\ path[p] \in fs /\ kind[path[p]] = "dir"
          /\ fs' = fs \ {path[p]}
          /\ deleted' = deleted \cup {path[p]}
          /\ result' = [result EXCEPT ![p] = RemoveResult(TRUE, path[p], "")]
       \/ /\ path[p] \in fs /\ kind[path[p]] = "dir"
          /\ UNCHANGED <<fs, deleted>>
          /\ result' = [result EXCEPT ![p] = RemoveResult(FALSE, path[p], "PermissionDenied")]
       \/ /\ path[p] \in fs /\ kind[path[p]] = "file"
          /\ UNCHANGED <<fs, deleted>>
          /\ result' = [result EXCEPT ![p] = RemoveResult(FALSE, path[p], "NotADirectory")]
       \/ /\ path[p] \notin fs
          /\ UNCHANGED <<fs, deleted>>
          /\ result' = [result EXCEPT ![p] = RemoveResult(FALSE, path[p], "NotFound")]
    /\ lock' = GuardDropped(p)
    /\ path' = [path EXCEPT ![p] = NoPath]
    /\ pc' = [pc EXCEPT ![p] = "done"]
    /\ UNCHANGED <<cache, op, arg, todo, all_projects, calls>>
    /\ UNCHANGED <<found, published, inserted, quiet, stolen, takenDuring>>
    /\ UNCHANGED disk

\* The command's return value is delivered to the caller; the task is free again.
Respond(p) ==
    /\ pc[p] = "done"
    /\ pc' = [pc EXCEPT ![p] = "idle"]
    /\ op' = [op EXCEPT ![p] = "none"]
    /\ arg' = [arg EXCEPT ![p] = NoId]
    /\ result' = [result EXCEPT ![p] = Pending]
    /\ all_projects' = [all_projects EXCEPT ![p] = <<>>]
    /\ found' = [found EXCEPT ![p] = <<>>]
    /\ quiet' = [quiet EXCEPT ![p] = FALSE]
    /\ stolen' = [stolen EXCEPT ![p] = FALSE]
    /\ takenDuring' = [takenDuring EXCEPT ![p] = {}]
    /\ UNCHANGED <<fs, cache, lock, path, todo, calls>>
    /\ UNCHANGED <<published, inserted, deleted>>
    /\ UNCHANGED disk

\* Another program (the CAD tool, the user) creates a project folder.
EnvCreate(e) ==
    /\ e \notin fs
    /\ fs' = fs \cup {e}
    /\ deleted' = deleted \ {e}
    /\ UNCHANGED <<cache, lock, pc, op, arg, path, todo, all_projects, result, calls>>
    /\ UNCHANGED <<found, published, inserted, quiet, stolen, takenDuring>>
    /\ UNCHANGED disk

\* Another program removes a project folder.
EnvRemove(e) ==
    /\ e \in fs
    /\ fs' = fs \ {e}
    /\ UNCHANGED <<cache, lock, pc, op, arg, path, todo, all_projects, result, calls>>
    /\ UNCHANGED hist
    /\ UNCHANGED disk

\* A step of a running command.
Step(p) ==
    \/ GpClear(p)
    \/ GpNext(p)
    \/ GpInsert(p)
    \/ GpReturn(p)
    \/ OpLock(p)
    \/ OpOpen(p)
    \/ DfLock(p)
    \/ DfRemove(p)
    \/ Respond(p)

Call(p) ==
    \/ CallGetProjects(p)
    \/ \E id \in Ids : CallOpenProject(p, id)
    \/ \E id \in Ids : CallDeleteFolder(p, id)

Env ==
    \/ \E e \in Paths : EnvCreate(e)
    \/ \E e \in Paths : EnvRemove(e)

\* Commands are dispatched as independent async tasks and may overlap.
Next ==
    \/ \E p \in Procs : Call(p)
    \/ \E p \in Procs : Step(p)
    \/ Env

Spec == Init /\ [][Next]_vars

\* The caller waits for each command to return before invoking the next.
AllIdle == \A p \in Procs : pc[p] = "idle"

NextSeq ==
    \/ \E p \in Procs : AllIdle /\ Call(p)
    \/ \E p \in Procs : Step(p)
    \/ Env

SeqSpec == Init /\ [][NextSeq]_vars

\* The clock advances.
Tick ==
    /\ \E n \in NowValues : n > now /\ now' = n
    /\ UNCHANGED <<prog, hist, kind, unreadable, tree>>

\* Every command invoked so far has returned.
AllReturned == \A p \in Procs : pc[p] \in {"idle", "done"}

\* Project entries that are directories or regular files, and at most one
\* directory or entry that cannot be read; nothing but the commands changes
\* the file system.
ScanInit ==
    /\ Started
    /\ fs \in SUBSET Paths
    /\ kind \in [Paths -> {"dir", "file"}]
    /\ \A e \in Paths \ fs : kind[e] = "dir"
    /\ unreadable \in {u \in SUBSET (Dirs \cup Paths) : Cardinality(u) <= 1}
    /\ \A d \in unreadable : \E e \in fs : d \in {<<e[1]>>, <<e[1], e[2]>>, e}
    /\ tree = [e \in Paths |-> DefaultTree]
    /\ now = StartTime

ScanNext ==
    \/ \E p \in Procs : AllReturned /\ Call(p)
    \/ \E p \in Procs : Step(p)
    \/ Tick

ScanSpec == ScanInit /\ [][ScanNext]_vars

\* A step of a running get_projects.
ScanStep(p) ==
    \/ GpClear(p)
    \/ GpNext(p)
    \/ GpInsert(p)
    \/ GpReturn(p)
    \/ Respond(p)

\* The project folder whose content varies.
Walked == <<2018, "u", "a">>

\* One project folder with any content of up to MaxEntries entries, scanned at
\* any time.
WalkInit ==
    /\ Started
    /\ fs = {Walked}
    /\ kind = [e \in Paths |-> "dir"]
    /\ unreadable = {}
    /\ tree \in {[e \in Paths |-> IF e = Walked THEN t ELSE DefaultTree] : t \in Trees}
    /\ now \in NowValues

WalkNext ==
    \/ \E p \in Procs : AllReturned /\ CallGetProjects(p)
    \/ \E p \in Procs : ScanStep(p)
    \/ Tick

WalkSpec == WalkInit /\ [][WalkNext]_vars

\* Overlapping commands on a file system nothing else changes. The runtime
\* polls every task that can make progress, the Mutex hands the lock to a
\* waiting task once it is free, and the opener and the removal of a finite
\* tree return.
LiveNext ==
    \/ \E p \in Procs : Call(p)
    \/ \E p \in Procs : Step(p)

LiveSpec == Init /\ [][LiveNext]_vars /\ \A p \in Procs : WF_vars(Step(p))

\* ------------------------------------------------------------- properties

\* The mapping a scan's inserts build from the paths it discovered, in order.
RECURSIVE MappingOf(_)
MappingOf(ps) ==
    IF ps = <<>> THEN EmptyMap
    ELSE HashMapInsert(MappingOf(SubSeq(ps, 1, Len(ps) - 1)),
                       to_string_lossy(ps[Len(ps)]), ps[Len(ps)])

Without(m, ks) == [x \in DOMAIN m \ ks |-> m[x]]

\* The scan of task p has been through every directory and done every insert.
ScanFinished(p) == pc[p] = "gp_loop" /\ todo[p] = {}

\* The cache is the whole result of the running scan p, minus what deletes took.
HoldsNewGeneration(p) ==
    /\ ScanFinished(p)
    /\ cache = Without(MappingOf(found[p]), takenDuring[p])

\* The cache has an entry for every project folder now on disk.
CompleteForDisk ==
    \A e \in fs : InRange(e) => to_string_lossy(e) \in DOMAIN cache

\* C1 (as claimed): whenever a scan is running and the cache lock is free, so
\* that an open_project or delete_folder can acquire it, the cache is either
\* the complete mapping the previous scan left (minus the entries deletes
\* took) or a complete mapping of the new scan; never an empty or partially
\* populated mapping in between.
C1_ScanReplacesIndivisibly ==
    (lock = NoProc /\ \E p \in Procs : Scanning(p)) =>
        \/ cache = published
        \/ \E p \in Procs : HoldsNewGeneration(p)
        \/ CompleteForDisk

\* C2 (as claimed): while a scan is in progress, every identifier the previous
\* completed scan left in the cache, and no delete has taken since, still
\* resolves to its path.
C2_PreviousGenerationResolves ==
    (\E p \in Procs : Scanning(p) /\ ~ScanFinished(p)) =>
        \A id \in DOMAIN published :
            id \in DOMAIN cache /\ cache[id] = published[id]

\* Task q leaves line 206 of delete_folder in this step, with or without a path.
DfLockStep(q) == pc[q] = "df_lock" /\ pc'[q] # "df_lock"

\* Task q leaves fs::remove_dir_all in this step.
DfRemoveStep(q) == pc[q] = "df_remove" /\ pc'[q] = "done"

\* Task p evaluates Ok(all_projects) in this step.
GpReturnStep(p) == Scanning(p) /\ pc'[p] = "done"

\* C3: of the delete_folder calls issued with the same identifier while the
\* cache holds it, with no scan writing the cache in between, exactly one
\* obtains the path and goes on to the recursive removal; a call that finds
\* another one has taken the identifier returns "not found" and removes nothing.
C3_OneDeleteWins ==
    [][\A q \in Procs :
         (DfLockStep(q) /\ quiet[q]) =>
            /\ (pc'[q] = "df_remove") <=> ~stolen[q]
            /\ stolen[q] => /\ pc'[q] = "done"
                            /\ result'[q] = NotFoundErr
                            /\ fs' = fs]_vars

\* Two delete_folder calls for one identifier raced: one obtained the path and
\* ran the removal, the other has returned "not found".
C3_Witness ==
    \E p, q \in Procs :
        /\ p # q
        /\ op[p] = "delete_folder" /\ op[q] = "delete_folder"
        /\ arg[p] = arg[q]
        /\ pc[p] = "done" /\ result[p].kind \in {"Ok", "DeleteFailed"}
        /\ pc[q] = "done" /\ quiet[q] /\ stolen[q]
        /\ result[q].kind = "NotFound"

\* C4 (as claimed): the cache never holds an entry whose path a successful
\* delete_folder removed and nobody has recreated since.
C4_NoEntryForDeletedPath ==
    \A id \in DOMAIN cache : cache[id] \notin deleted

\* The identifiers of the summaries in a scan's output vector.
IdsOf(v) == {v[i].id : i \in DOMAIN v}

\* C5 (as claimed): when a scan completes and no other scan is running, every
\* identifier in the cache was discovered by that scan.
C5_OnlyLatestScan ==
    [][\A p \in Procs :
         (GpReturnStep(p) /\ \A q \in Procs \ {p} : ~Scanning(q)) =>
            DOMAIN cache' \subseteq IdsOf(all_projects[p])]_vars

\* C6 (as claimed): when get_projects returns, the cache maps the identifier
\* of every returned summary to a path that scan discovered under that
\* identifier, except for the identifiers a delete_folder took in the meantime.
C6_PublishedBeforeReturn ==
    [][\A p \in Procs :
         GpReturnStep(p) =>
            \A i \in DOMAIN all_projects[p] :
                LET id == all_projects[p][i].id IN
                \/ id \in takenDuring[p]
                \/ /\ id \in DOMAIN cache'
                   /\ \E j \in DOMAIN found[p] :
                        /\ to_string_lossy(found[p][j]) = id
                        /\ cache'[id] = found[p][j]]_vars

\* The identifiers of the paths deleted and not recreated since.
DeletedIds == {to_string_lossy(d) : d \in deleted}

\* C7 (as claimed), commands run one at a time: a successful delete_folder(X)
\* leaves no directory at the path; afterwards open_project(X) and
\* delete_folder(X) obtain no path, and get_projects does not list X, until the
\* directory has been recreated.
C7_DeletedStaysGone ==
    [][\A p \in Procs :
         /\ (DfRemoveStep(p) /\ result'[p].kind = "Ok") => path[p] \notin fs'
         /\ pc'[p] \in {"op_open", "df_remove"} => arg'[p] \notin DeletedIds
         /\ GpReturnStep(p) => IdsOf(result'[p].projects) \cap DeletedIds = {}]_vars

C9_FailedRemovalReported ==
    [][\A p \in Procs :
         DfRemoveStep(p) =>
            /\ arg[p] \notin DOMAIN cache'
            /\ result'[p].kind \in {"Ok", "DeleteFailed"}
            /\ result'[p].kind = "Ok" => path[p] \in fs /\ path[p] \notin fs'
            /\ fs' = fs => /\ result'[p].kind = "DeleteFailed"
                           /\ result'[p].path = path[p]
                           /\ result'[p].cause # ""]_vars

\* A delete_folder whose removal failed has returned; the directory is still
\* there and the identifier is out of the cache.
C9_Witness ==
    \E p \in Procs :
        /\ pc[p] = "done" /\ op[p] = "delete_folder"
        /\ result[p].kind = "DeleteFailed"
        /\ result[p].path \in fs
        /\ arg[p] \notin DOMAIN cache

\* C10: delete_folder with an identifier that is not in the cache returns the
\* "not found" error, removes nothing from disk and leaves the cache as it was.
C10_MissChangesNothing ==
    [][\A p \in Procs :
         (DfLockStep(p) /\ arg[p] \notin DOMAIN cache) =>
            /\ pc'[p] = "done"
            /\ result'[p] = NotFoundErr
            /\ fs' = fs
            /\ cache' = cache
            /\ lock' = lock]_vars

\* A delete_folder missed while the cache held other entries.
C10_Witness ==
    \E p \in Procs :
        /\ pc[p] = "done" /\ op[p] = "delete_folder"
        /\ result[p].kind = "NotFound"
        /\ ~quiet[p] /\ ~stolen[p]
        /\ cache # EmptyMap
        /\ arg[p] \notin DOMAIN cache

OpLockStep(p) == pc[p] = "op_lock" /\ pc'[p] # pc[p]

OpOpenStep(p) == pc[p] = "op_open" /\ pc'[p] # pc[p]

C17_RemovalExcludesOthers ==
    \A p \in Procs :
        pc[p] = "df_remove" =>
            /\ lock = p
            /\ \A q \in Procs \ {p} :
                 ~(pc[q] \in {"op_open", "df_remove"} /\ path[q] = path[p])

\* A delete_folder is removing a path while another task waits at the Mutex
\* with the same identifier.
C17_Witness ==
    \E p \in Procs, q \in Procs :
        /\ p # q
        /\ pc[p] = "df_remove" /\ path[p] \in fs
        /\ pc[q] \in {"op_lock", "df_lock"}
        /\ arg[q] = arg[p]

\* The paths in a sequence of discovered paths.
RangeOf(ps) == {ps[i] : i \in DOMAIN ps}

\* Nothing on the way from the version directory down to the entry e fails to
\* be read.
Readable(e) == \A d \in unreadable : d \notin {<<e[1]>>, <<e[1], e[2]>>, e}

\* C11: get_projects always returns Ok. Absent version directories and
\* directories or entries that cannot be read are skipped without aborting the
\* scan: every entry of every user folder that can be reached without a read
\* error is in the result, and nothing else is; when no version directory
\* exists the result is the empty list.
C11_ScanNeverFails ==
    [][\A p \in Procs :
         GpReturnStep(p) =>
            /\ result'[p].kind = "Ok"
            /\ result'[p].projects = all_projects[p]
            /\ Len(all_projects[p]) = Len(found[p])
            /\ RangeOf(found[p]) = {e \in fs : InRange(e) /\ Readable(e)}
            /\ (fs = {} => result'[p].projects = <<>>)]_vars

\* A scan has returned projects although it had to skip something unreadable
\* that hides an existing entry.
C11_Witness ==
    \E p \in Procs :
        /\ pc[p] = "done" /\ op[p] = "get_projects"
        /\ result[p].kind = "Ok"
        /\ result[p].projects # <<>>
        /\ \E e \in fs : ~Readable(e) /\ e \notin RangeOf(found[p])

\* The summaries v and w agree in everything but days, position by position.
SameButDays(v, w) ==
    /\ Len(v) = Len(w)
    /\ \A i \in DOMAIN v :
         /\ v[i].id = w[i].id
         /\ v[i].name = w[i].name
         /\ v[i].year = w[i].year
         /\ v[i].size = w[i].size

\* C14: a get_projects call that follows a returned get_projects call with no
\* change of the file system in between returns the same summaries in the
\* same order, except that days may have grown; if no delete_folder took an
\* entry in between, it also leaves the cache as the first call left it.
C14_RescanSameResult ==
    [][\A p \in Procs, q \in Procs :
         (/\ p # q
          /\ GpReturnStep(p)
          /\ pc[q] = "done" /\ op[q] = "get_projects"
          /\ RangeOf(found[q]) \cap deleted = {}) =>
            /\ SameButDays(result[q].projects, result'[p].projects)
            /\ \A i \in DOMAIN all_projects[p] :
                 result[q].projects[i].days <= result'[p].projects[i].days
            /\ (IdsOf(result[q].projects) \subseteq DOMAIN published =>
                  cache' = published)]_vars

\* Two scans have returned one after the other; both saw two folders with the
\* same identifier and a third one, and days has grown in between.
C14_Witness ==
    \E p \in Procs, q \in Procs :
        /\ p # q
        /\ pc[p] = "done" /\ op[p] = "get_projects"
        /\ pc[q] = "done" /\ op[q] = "get_projects"
        /\ RangeOf(found[q]) \cap deleted = {}
        /\ Len(result[q].projects) = 3
        /\ Len(result[p].projects) = 3
        /\ result[q].projects[1].days < result[p].projects[1].days

\* C15: a scan emits a summary and a cache pair only for entries of a user
\* folder that are directories; what is not a directory never becomes a path
\* that open_project hands to the opener or delete_folder removes.
C15_OnlyDirectories ==
    /\ \A k \in DOMAIN cache : kind[cache[k]] = "dir"
    /\ \A p \in Procs : \A e \in RangeOf(found[p]) : kind[e] = "dir"
    /\ \A p \in Procs : pc[p] \in {"op_open", "df_remove"} => kind[path[p]] = "dir"

\* C18: in the result of one scan no two summaries share an identifier, the
\* cache holds exactly one pair per summary, every key is the string form of
\* the path it maps to, and distinct identifiers map to distinct paths.
C18_IdsUnique ==
    [][\A p \in Procs :
         GpReturnStep(p) =>
            LET v == all_projects[p] IN
              /\ \A i \in DOMAIN v, j \in DOMAIN v : i # j => v[i].id # v[j].id
              /\ Cardinality(DOMAIN cache) = Len(v)
              /\ DOMAIN cache = IdsOf(v)
              /\ \A k \in DOMAIN cache : to_string_lossy(cache[k]) = k
              /\ \A k \in DOMAIN cache, l \in DOMAIN cache :
                   k # l => cache[k] # cache[l]]_vars

\* The positions of the readable regular files in what a walk yields.
RegularFiles(t) == {j \in DOMAIN t : t[j].t = "file" /\ t[j].meta}

\* The sum of the lengths at the positions S of t.
RECURSIVE SumLen(_, _)
SumLen(t, S) ==
    IF S = {} THEN 0
    ELSE LET j == CHOOSE x \in S : TRUE IN t[j].len + SumLen(t, S \ {j})

\* The latest modification time among the regular files of t, if any is readable.
ReadableMTimes(t) == {t[j].mtime : j \in RegularFiles(t)} \ {NoTime}

Newest(t) == CHOOSE m \in ReadableMTimes(t) : \A x \in ReadableMTimes(t) : x <= m

\* A get_projects has just summarized a project folder.
Summarized(p) == pc[p] = "gp_loop" /\ pc'[p] = "gp_insert"

\* C12: the size of a summary is the exact sum of the lengths of the regular
\* files the walk of the project folder yields; directories, other entries,
\* walk errors and entries without readable metadata add nothing.
C12_SizeIsSumOfFiles ==
    [][\A p \in Procs :
         Summarized(p) =>
            LET s == all_projects'[p][Len(all_projects'[p])]
                t == tree[path'[p]]
            IN  s.size = SumLen(t, RegularFiles(t))]_vars

\* A summary was built from a folder with a regular file and an entry that
\* does not count, and the scan returned it.
C12_Witness ==
    \E p \in Procs :
        /\ pc[p] = "done" /\ op[p] = "get_projects"
        /\ Len(result[p].projects) = 1
        /\ result[p].projects[1].size > 0
        /\ RegularFiles(tree[Walked]) # DOMAIN tree[Walked]
        /\ tree[Walked] # DefaultTree

\* C13 as stated: days is floor((now - newest modification time) / one day),
\* and 0 if no regular file has a readable modification time.
C13_DaysIsFloor ==
    [][\A p \in Procs :
         Summarized(p) =>
            LET s == all_projects'[p][Len(all_projects'[p])]
                t == tree[path'[p]]
            IN  s.days = IF ReadableMTimes(t) = {} THEN 0
                         ELSE (now - Newest(t)) \div SecsPerDay]_vars

\* C13, amended: days is floor((now - newest modification time) / one day),
\* and 0 if no regular file has a readable modification time or the newest
\* one is later than now.
C13_DaysIsFloorOrZero ==
    [][\A p \in Procs :
         Summarized(p) =>
            LET s == all_projects'[p][Len(all_projects'[p])]
                t == tree[path'[p]]
            IN  s.days = IF ReadableMTimes(t) = {} \/ Newest(t) > now THEN 0
                         ELSE (now - Newest(t)) \div SecsPerDay]_vars

\* A scan has just summarized a folder whose newest file is later than now.
C13_Witness ==
    \E p \in Procs :
        /\ pc[p] = "gp_insert"
        /\ ReadableMTimes(tree[path[p]]) # {}
        /\ Newest(tree[path[p]]) > now
        /\ all_projects[p][Len(all_projects[p])].days = 0

\* The command of task p is running: invoked and not yet returned.
Running(p) == pc[p] \notin {"idle", "done"}

\* C19: every started get_projects, open_project and delete_folder eventually
\* returns, whatever other commands run at the same time, and a Mutex that is
\* held is eventually released: no command waits for the lock forever.
C19_EveryCallReturns ==
    /\ \A p \in Procs : Running(p) ~> (pc[p] = "done" /\ lock # p)
    /\ \A p \in Procs : (lock = p) ~> (lock = NoProc)

\* A command waits at the Mutex while another task holds it.
C19_Witness ==
    \E p \in Procs, q \in Procs :
        /\ p # q
        /\ lock = q
        /\ pc[p] \in {"gp_clear", "gp_insert", "op_lock", "df_lock"}

====
